---------------------------- MODULE Spec2Model ----------------------------
(***************************************************************************)
(* A model of ipinfo (src/ipinfo.go): main, the identifier normalizer, the *)
(* DNS pool (runDNS / resolveAllDNS / workDNS), the geolocation pool       *)
(* (resolveAllIpInfo / workIpInfoLookup / callRemoteService) and the       *)
(* aggregator (outputTable).                                               *)
(*                                                                         *)
(* Strings the code inspects (identifiers, IPs, loc) are sequences of      *)
(* one-character strings; strings it only copies (city, org, ...) are      *)
(* atoms.  Goroutines are anonymous in the code, so a pool's workers are   *)
(* kept as counts and bags, not as numbered processes.                     *)
(***************************************************************************)
EXTENDS Integers, Sequences, FiniteSets, Bags, TLC

(***************************************************************************)
(* Bounds of the model.                                                    *)
(***************************************************************************)
MaxArgs == 2

\* The longest record list outputTable is called with when taken alone.
MaxRecords == 2

\* flag.Int("t", 30, ...): the default worker count.
DefaultWorkers == 30

(***************************************************************************)
(* Strings.                                                                *)
(***************************************************************************)
\* The characters the model uses, in byte order (Go compares strings bytewise).
Alphabet ==
    << "\n", ",", "-", ".", "/", "0", "1", "2", "3", "4", "5", "6", "7", "8",
       "9", ":", "@", "A", "N", "a", "b", "c", "h", "p", "t", "u" >>

Ord(c) == CHOOSE i \in 1..Len(Alphabet) : Alphabet[i] = c

IsDigit(c) == c \in {"0", "1", "2", "3", "4", "5", "6", "7", "8", "9"}

\* a < b on strings: bytewise lexicographic order.
RECURSIVE StrLess(_, _)
StrLess(a, b) ==
    IF b = <<>> THEN FALSE
    ELSE IF a = <<>> THEN TRUE
    ELSE IF Head(a) = Head(b) THEN StrLess(Tail(a), Tail(b))
    ELSE Ord(Head(a)) < Ord(Head(b))

\* s[i..i+Len(sub)-1] = sub
MatchAt(s, sub, i) ==
    /\ i >= 1
    /\ i + Len(sub) - 1 <= Len(s)
    /\ \A k \in 1..Len(sub) : s[i + k - 1] = sub[k]

\* strings.Contains
Contains(s, sub) == \E i \in 1..(Len(s) + 1) : MatchAt(s, sub, i)

\* strings.Index: the first position (1-based here) of sub in s, 0 when absent.
Index(s, sub) ==
    IF Contains(s, sub)
    THEN CHOOSE i \in 1..(Len(s) + 1) :
            /\ MatchAt(s, sub, i)
            /\ \A j \in 1..(i - 1) : ~MatchAt(s, sub, j)
    ELSE 0

\* strings.SplitN(s, sep, n) for a non-empty sep and n > 0: at most n parts,
\* the last one the unsplit remainder.
RECURSIVE SplitN(_, _, _)
SplitN(s, sep, n) ==
    LET i == Index(s, sep)
    IN  IF n = 1 \/ i = 0 THEN << s >>
        ELSE << SubSeq(s, 1, i - 1) >>
             \o SplitN(SubSeq(s, i + Len(sep), Len(s)), sep, n - 1)

\* strings.Split(s, sep): every part.
Split(s, sep) == SplitN(s, sep, Len(s) + 1)


(***************************************************************************)
(* truncateArgParts.                                                       *)
(***************************************************************************)
AllDigits(s, i, n) == \A k \in i..(i + n - 1) : k <= Len(s) /\ IsDigit(s[k])

\* regexp (?:[0-9]{1,3}\.){3}[0-9]{1,3}, unanchored (v4re.Match).
V4reMatch(s) ==
    \E i \in 1..Len(s), a \in 1..3, b \in 1..3, c \in 1..3, d \in 1..3 :
        /\ AllDigits(s, i, a)
        /\ MatchAt(s, << "." >>, i + a)
        /\ AllDigits(s, i + a + 1, b)
        /\ MatchAt(s, << "." >>, i + a + 1 + b)
        /\ AllDigits(s, i + a + 1 + b + 1, c)
        /\ MatchAt(s, << "." >>, i + a + 1 + b + 1 + c)
        /\ AllDigits(s, i + a + 1 + b + 1 + c + 1, d)

\* Faulty variant, for sensitivity analysis: the URL branch splits into at most
\* 2 parts (strings.SplitN(entry, "/", 2)) and still reads slots[2].
TruncateEntryPanicsSplit2(raw) ==
    IF Contains(raw, << ":", "/", "/" >>)
    THEN Len(SplitN(raw, << "/" >>, 2)) < 3
    ELSE IF Contains(raw, << "@" >>)
    THEN Len(SplitN(raw, << "@" >>, 2)) < 2
    ELSE IF V4reMatch(raw) /\ Contains(raw, << ":" >>)
    THEN Index(raw, << ":" >>) = 0
    ELSE FALSE

\* The run-time panics one iteration can raise: slots[2] or slots[1] out of
\* range, or a slice bound of -1 (strings.Index found nothing).
TruncateEntryPanics(raw) ==
    IF Contains(raw, << ":", "/", "/" >>)
    THEN Len(SplitN(raw, << "/" >>, 4)) < 3
    ELSE IF Contains(raw, << "@" >>)
    THEN Len(SplitN(raw, << "@" >>, 2)) < 2
    ELSE IF V4reMatch(raw) /\ Contains(raw, << ":" >>)
    THEN Index(raw, << ":" >>) = 0
    ELSE FALSE

\* One iteration of truncateArgParts' loop: the entry appended for rawArgs[entry].
\* Go's slots[2] and slots[1] are the 3rd and 2nd element here.
TruncateEntry(raw) ==
    IF Contains(raw, << ":", "/", "/" >>)
    THEN SplitN(raw, << "/" >>, 4)[3]
    ELSE IF Contains(raw, << "@" >>)
    THEN SplitN(raw, << "@" >>, 2)[2]
    ELSE IF V4reMatch(raw) /\ Contains(raw, << ":" >>)
    THEN SubSeq(raw, 1, Index(raw, << ":" >>) - 1)
    ELSE raw

TruncateArgParts(rawArgs) == [ entry \in 1..Len(rawArgs) |-> TruncateEntry(rawArgs[entry]) ]

(***************************************************************************)
(* callRemoteService.                                                      *)
(*                                                                         *)
(* A response of the service, as the code observes it:                     *)
(*   getErr   client.Get returned an error                                 *)
(*   status   resp.StatusCode                                              *)
(*   readErr  ioutil.ReadAll returned an error                             *)
(*   rate     the body contains "Rate limit exceeded"                      *)
(*   wrongip  the body contains "Wrong ip" or "invalid IP address"         *)
(*   jsonOk   json.Unmarshal accepts the body                              *)
(*   json     the fields of ipInfoResult the body's JSON object sets       *)
(***************************************************************************)
StatusOK == 200

NilErr == "nil"

ErrHttpGet == "HTTP GET error"

ErrHttpStatus == "HTTP error status"

ErrReadBody == "error reading response body"

ErrRateLimit == "rate limit exceeded"

ErrInvalidIP == "API reported invalid IP"

ErrUnmarshal == "error unmarshalling JSON"

NA == << "N", "/", "A" >>

\* var obj ipInfoResult; obj.Ip = ip   (Postal and Distance are never read).
ZeroResult(ip) ==
    [ Ip |-> ip, Hostname |-> "", City |-> "", Region |-> "", Country |-> "",
      Loc |-> <<>>, Org |-> "", ErrMsg |-> NilErr ]

JsonField(doc, obj, f) == IF f \in DOMAIN doc THEN doc[f] ELSE obj[f]

\* json.Unmarshal(body, &obj): a field the object names is overwritten, the
\* others keep their value (obj.Ip included).
Unmarshal(doc, obj) ==
    [ Ip       |-> JsonField(doc, obj, "Ip"),
      Hostname |-> JsonField(doc, obj, "Hostname"),
      City     |-> JsonField(doc, obj, "City"),
      Region   |-> JsonField(doc, obj, "Region"),
      Country  |-> JsonField(doc, obj, "Country"),
      Loc      |-> JsonField(doc, obj, "Loc"),
      Org      |-> JsonField(doc, obj, "Org"),
      ErrMsg   |-> obj.ErrMsg ]

\* Faulty variant, for sensitivity analysis: the invalid-IP text is looked for before the rate-limit text.
CallRemoteServiceInvalidFirst(ip, resp) ==
    LET obj == ZeroResult(ip)
    IN  IF resp.getErr
        THEN [obj EXCEPT !.ErrMsg = ErrHttpGet]
        ELSE IF resp.status # StatusOK
        THEN [obj EXCEPT !.ErrMsg = ErrHttpStatus]
        ELSE IF resp.readErr
        THEN [obj EXCEPT !.ErrMsg = ErrReadBody]
        ELSE IF resp.wrongip
        THEN [obj EXCEPT !.ErrMsg = ErrInvalidIP,
                         !.City = "Invalid IP", !.Region = "N/A",
                         !.Country = "N/A", !.Loc = NA, !.Org = "N/A",
                         !.Hostname = "N/A"]
        ELSE IF resp.rate
        THEN [obj EXCEPT !.ErrMsg = ErrRateLimit]
        ELSE IF ~resp.jsonOk
        THEN [obj EXCEPT !.ErrMsg = ErrUnmarshal]
        ELSE Unmarshal(resp.json, obj)

CallRemoteService(ip, resp) ==
    LET obj == ZeroResult(ip)
    IN  IF resp.getErr
        THEN [obj EXCEPT !.ErrMsg = ErrHttpGet]
        ELSE IF resp.status # StatusOK
        THEN [obj EXCEPT !.ErrMsg = ErrHttpStatus]
        ELSE IF resp.readErr
        THEN [obj EXCEPT !.ErrMsg = ErrReadBody]
        ELSE IF resp.rate
        THEN [obj EXCEPT !.ErrMsg = ErrRateLimit]
        ELSE IF resp.wrongip
        THEN [obj EXCEPT !.ErrMsg = ErrInvalidIP,
                         !.City = "Invalid IP", !.Region = "N/A",
                         !.Country = "N/A", !.Loc = NA, !.Org = "N/A",
                         !.Hostname = "N/A"]
        ELSE IF ~resp.jsonOk
        THEN [obj EXCEPT !.ErrMsg = ErrUnmarshal]
        ELSE Unmarshal(resp.json, obj)

(***************************************************************************)
(* runDNS: the aggregation of the successful DNS replies.                  *)
(***************************************************************************)
\* Faulty variant, for sensitivity analysis: the membership test never finds the string.
StringInSliceNever(a, list) == FALSE

StringInSlice(a, list) == \E k \in 1..Len(list) : list[k] = a

\* A Go map as a function on its key set; the empty map is << >>.
MapGet(m, k) == IF k \in DOMAIN m THEN m[k] ELSE <<>>

MapPut(m, k, v) == [ x \in (DOMAIN m) \cup {k} |-> IF x = k THEN v ELSE m[x] ]

\* Faulty variant, for sensitivity analysis: the inner loop without its "found" check: the hostname is appended
\* for every address, also when it is already listed for it.
RECURSIVE AddAddressesNoDedup(_, _, _)
AddAddressesNoDedup(acc, hostname, addresses) ==
    IF addresses = <<>> THEN acc
    ELSE LET ip == Head(addresses)
             m2 == MapPut(acc.ipToHostnames, ip,
                          Append(MapGet(acc.ipToHostnames, ip), hostname))
             a2 == IF StringInSlice(ip, acc.ipAddrs) THEN acc.ipAddrs
                   ELSE Append(acc.ipAddrs, ip)
         IN  AddAddressesNoDedup([ipAddrs |-> a2, ipToHostnames |-> m2],
                                 hostname, Tail(addresses))

\* Faulty variant, for sensitivity analysis: the unique-IP bookkeeping sits after
\* the inner loop, so only the last address of each reply is added to ipAddrs.
RECURSIVE AddAddressesTracksLast(_, _, _)
AddAddressesTracksLast(acc, hostname, addresses) ==
    IF addresses = <<>> THEN acc
    ELSE LET ip    == Head(addresses)
             cur   == MapGet(acc.ipToHostnames, ip)
             found == \E k \in 1..Len(cur) : cur[k] = hostname
             m2    == IF found THEN acc.ipToHostnames
                      ELSE MapPut(acc.ipToHostnames, ip, Append(cur, hostname))
             a2    == IF Tail(addresses) # <<>> \/ StringInSlice(ip, acc.ipAddrs)
                      THEN acc.ipAddrs
                      ELSE Append(acc.ipAddrs, ip)
         IN  AddAddressesTracksLast([ipAddrs |-> a2, ipToHostnames |-> m2],
                                    hostname, Tail(addresses))

\* The inner loop of runDNS: for _, ip := range val.addresses { ... }
RECURSIVE AddAddresses(_, _, _)
AddAddresses(acc, hostname, addresses) ==
    IF addresses = <<>> THEN acc
    ELSE LET ip    == Head(addresses)
             cur   == MapGet(acc.ipToHostnames, ip)
             found == \E k \in 1..Len(cur) : cur[k] = hostname
             m2    == IF found THEN acc.ipToHostnames
                      ELSE MapPut(acc.ipToHostnames, ip, Append(cur, hostname))
             a2    == IF StringInSlice(ip, acc.ipAddrs) THEN acc.ipAddrs
                      ELSE Append(acc.ipAddrs, ip)
         IN  AddAddresses([ipAddrs |-> a2, ipToHostnames |-> m2], hostname,
                          Tail(addresses))

\* The outer loop of runDNS: for _, val := range ipm { ... }
RECURSIVE AggregateDNS(_, _)
AggregateDNS(acc, ipm) ==
    IF ipm = <<>> THEN acc
    ELSE AggregateDNS(AddAddresses(acc, Head(ipm).hostname, Head(ipm).addresses),
                      Tail(ipm))

\* What runDNS returns for resolveAllDNS's replies.
RunDNSResult(ipm) == AggregateDNS([ipAddrs |-> <<>>, ipToHostnames |-> <<>>], ipm)

(***************************************************************************)
(* outputTable.                                                            *)
(***************************************************************************)
Placeholder ==
    << "3", "7", ".", "7", "5", "1", "0", ",",
       "-", "9", "7", ".", "8", "2", "2", "0" >>

Comma == << "," >>

Newline == << "\n" >>

\* A decimal literal strconv.ParseFloat accepts: [-]digits[.digits]
IsNumber(s) ==
    LET body  == IF s # <<>> /\ Head(s) = "-" THEN Tail(s) ELSE s
        parts == Split(body, << "." >>)
    IN  /\ Len(parts) \in {1, 2}
        /\ \A k \in 1..Len(parts) :
              parts[k] # <<>> /\ AllDigits(parts[k], 1, Len(parts[k]))

\* strconv.ParseFloat(s, 64) as latlon2coord uses it: a float is denoted by its
\* literal, and a string that does not parse gives 0 (the error is only printed).
ParseFloat(s) == IF IsNumber(s) THEN s ELSE << "0" >>

\* latlon2coord indexes slots[0] and slots[1] without a length check.
Latlon2coordPanics(latlon) == Len(Split(latlon, Comma)) < 2

Latlon2coord(latlon) ==
    LET slots == Split(latlon, Comma)
    IN  << ParseFloat(slots[1]), ParseFloat(slots[2]) >>

\* fmt.Sprintf("%.2f", HaversineDistance(lat1, lon1, lat2, lon2)): the distance
\* is kept symbolic, as the text naming its four arguments.
DistanceStr(from, to) ==
    from[1] \o Comma \o from[2] \o << ":" >> \o to[1] \o Comma \o to[2]

\* Faulty variant, for sensitivity analysis: only the placeholder is tested,
\* not len(currentLoc) == 0, so an empty loc goes to the distance calculation.
RowsOfRecordNoEmptyTest(info, ipToHostnames, loc, oneRow) ==
    IF Contains(info.Ip, << ":" >>) THEN [panic |-> FALSE, rows |-> <<>>]
    ELSE IF info.ErrMsg # NilErr THEN [panic |-> FALSE, rows |-> <<>>]
    ELSE
      LET absent        == info.Loc = Placeholder
          currentLoc    == IF absent THEN NA ELSE info.Loc
          currentCity   == IF absent THEN "N/A" ELSE info.City
          currentRegion == IF absent THEN "N/A" ELSE info.Region
          coordPanics   == ~absent /\ (Latlon2coordPanics(loc)
                                       \/ Latlon2coordPanics(currentLoc))
          distanceStr   == IF absent THEN NA
                           ELSE DistanceStr(Latlon2coord(loc), Latlon2coord(currentLoc))
          locParts      == IF currentLoc # NA THEN Split(currentLoc, Comma)
                           ELSE << NA, NA >>
          hostnamesForThisIP == MapGet(ipToHostnames, info.Ip)
          rowPanics     == ~oneRow /\ Len(locParts) < 2
          Row(hostname) ==
              IF oneRow
              THEN << hostname, info.Ip, info.Hostname, info.Org, currentCity,
                      currentRegion, info.Country, currentLoc, distanceStr >>
              ELSE << hostname \o Newline \o info.Ip,
                      << info.Hostname, "\n", info.Org >>,
                      << currentCity, "\n", currentRegion, "\n", info.Country >>,
                      locParts[1] \o Newline \o locParts[2],
                      distanceStr >>
      IN  IF coordPanics THEN [panic |-> TRUE, rows |-> <<>>]
          ELSE IF info.Ip \notin DOMAIN ipToHostnames
          THEN [panic |-> FALSE, rows |-> <<>>]
          ELSE IF rowPanics /\ hostnamesForThisIP # <<>>
          THEN [panic |-> TRUE, rows |-> <<>>]
          ELSE [panic |-> FALSE,
                rows  |-> [ k \in 1..Len(hostnamesForThisIP) |->
                              Row(hostnamesForThisIP[k]) ]]

\* Faulty variant, for sensitivity analysis: the test for ':' in info.Ip is
\* missing, so an IPv6 record is handled like any other.
RowsOfRecordNoV6Skip(info, ipToHostnames, loc, oneRow) ==
    IF info.ErrMsg # NilErr THEN [panic |-> FALSE, rows |-> <<>>]
    ELSE
      LET absent        == info.Loc = Placeholder \/ Len(info.Loc) = 0
          currentLoc    == IF absent THEN NA ELSE info.Loc
          currentCity   == IF absent THEN "N/A" ELSE info.City
          currentRegion == IF absent THEN "N/A" ELSE info.Region
          coordPanics   == ~absent /\ (Latlon2coordPanics(loc)
                                       \/ Latlon2coordPanics(currentLoc))
          distanceStr   == IF absent THEN NA
                           ELSE DistanceStr(Latlon2coord(loc), Latlon2coord(currentLoc))
          locParts      == IF currentLoc # NA THEN Split(currentLoc, Comma)
                           ELSE << NA, NA >>
          hostnamesForThisIP == MapGet(ipToHostnames, info.Ip)
          rowPanics     == ~oneRow /\ Len(locParts) < 2
          Row(hostname) ==
              IF oneRow
              THEN << hostname, info.Ip, info.Hostname, info.Org, currentCity,
                      currentRegion, info.Country, currentLoc, distanceStr >>
              ELSE << hostname \o Newline \o info.Ip,
                      << info.Hostname, "\n", info.Org >>,
                      << currentCity, "\n", currentRegion, "\n", info.Country >>,
                      locParts[1] \o Newline \o locParts[2],
                      distanceStr >>
      IN  IF coordPanics THEN [panic |-> TRUE, rows |-> <<>>]
          ELSE IF info.Ip \notin DOMAIN ipToHostnames
          THEN [panic |-> FALSE, rows |-> <<>>]
          ELSE IF rowPanics /\ hostnamesForThisIP # <<>>
          THEN [panic |-> TRUE, rows |-> <<>>]
          ELSE [panic |-> FALSE,
                rows  |-> [ k \in 1..Len(hostnamesForThisIP) |->
                              Row(hostnamesForThisIP[k]) ]]

\* The body of outputTable's loop for one record: the rows it appends, or a
\* panic (index out of range).
RowsOfRecord(info, ipToHostnames, loc, oneRow) ==
    IF Contains(info.Ip, << ":" >>) THEN [panic |-> FALSE, rows |-> <<>>]
    ELSE IF info.ErrMsg # NilErr THEN [panic |-> FALSE, rows |-> <<>>]
    ELSE
      LET absent        == info.Loc = Placeholder \/ Len(info.Loc) = 0
          currentLoc    == IF absent THEN NA ELSE info.Loc
          currentCity   == IF absent THEN "N/A" ELSE info.City
          currentRegion == IF absent THEN "N/A" ELSE info.Region
          coordPanics   == ~absent /\ (Latlon2coordPanics(loc)
                                       \/ Latlon2coordPanics(currentLoc))
          distanceStr   == IF absent THEN NA
                           ELSE DistanceStr(Latlon2coord(loc), Latlon2coord(currentLoc))
          locParts      == IF currentLoc # NA THEN Split(currentLoc, Comma)
                           ELSE << NA, NA >>
          hostnamesForThisIP == MapGet(ipToHostnames, info.Ip)
          rowPanics     == ~oneRow /\ Len(locParts) < 2
          Row(hostname) ==
              IF oneRow
              THEN << hostname, info.Ip, info.Hostname, info.Org, currentCity,
                      currentRegion, info.Country, currentLoc, distanceStr >>
              ELSE << hostname \o Newline \o info.Ip,
                      << info.Hostname, "\n", info.Org >>,
                      << currentCity, "\n", currentRegion, "\n", info.Country >>,
                      locParts[1] \o Newline \o locParts[2],
                      distanceStr >>
      IN  IF coordPanics THEN [panic |-> TRUE, rows |-> <<>>]
          ELSE IF info.Ip \notin DOMAIN ipToHostnames
          THEN [panic |-> FALSE, rows |-> <<>>]
          ELSE IF rowPanics /\ hostnamesForThisIP # <<>>
          THEN [panic |-> TRUE, rows |-> <<>>]
          ELSE [panic |-> FALSE,
                rows  |-> [ k \in 1..Len(hostnamesForThisIP) |->
                              Row(hostnamesForThisIP[k]) ]]

\* Faulty variant, for sensitivity analysis: allRows = row-list of the record
\* instead of append(allRows, row): an earlier record's rows are lost.
RECURSIVE CollectRowsOverwrites(_, _, _, _, _)
CollectRowsOverwrites(allRows, ipInfo, ipToHostnames, loc, oneRow) ==
    IF ipInfo = <<>> THEN [panic |-> FALSE, rows |-> allRows]
    ELSE LET r == RowsOfRecord(Head(ipInfo), ipToHostnames, loc, oneRow)
         IN  IF r.panic THEN [panic |-> TRUE, rows |-> <<>>]
             ELSE CollectRowsOverwrites(r.rows, Tail(ipInfo), ipToHostnames,
                                        loc, oneRow)

\* The loop over ipInfo: allRows before the sort, or a panic.
RECURSIVE CollectRows(_, _, _, _, _)
CollectRows(allRows, ipInfo, ipToHostnames, loc, oneRow) ==
    IF ipInfo = <<>> THEN [panic |-> FALSE, rows |-> allRows]
    ELSE LET r == RowsOfRecord(Head(ipInfo), ipToHostnames, loc, oneRow)
         IN  IF r.panic THEN [panic |-> TRUE, rows |-> <<>>]
             ELSE CollectRows(allRows \o r.rows, Tail(ipInfo), ipToHostnames,
                              loc, oneRow)

\* The sort key: strings.Split(row[0], "\n")[0]
RowHost(row) == Split(row[1], Newline)[1]

\* less(a, b) of the sort.Slice call
RowLess(rowA, rowB) == StrLess(RowHost(rowA), RowHost(rowB))

\* sort.Slice on fewer than 12 elements is an insertion sort: each row moves
\* left while it is less than its left neighbour.
RECURSIVE InsertRow(_, _)
InsertRow(sorted, row) ==
    IF sorted = <<>> THEN << row >>
    ELSE LET last == sorted[Len(sorted)]
         IN  IF RowLess(row, last)
             THEN Append(InsertRow(SubSeq(sorted, 1, Len(sorted) - 1), row), last)
             ELSE Append(sorted, row)

\* Faulty variant, for sensitivity analysis: the rows are rendered in the order
\* they were appended; the sort.Slice call is missing.
SortRowsMissing(allRows) == allRows

RECURSIVE SortRows(_)
SortRows(allRows) ==
    IF allRows = <<>> THEN <<>>
    ELSE InsertRow(SortRows(SubSeq(allRows, 1, Len(allRows) - 1)),
                   allRows[Len(allRows)])

\* outputTable up to table.AppendBulk: the rows handed to the renderer.
OutputTable(ipInfo, ipToHostnames, loc, oneRow) ==
    LET c == CollectRows(<<>>, ipInfo, ipToHostnames, loc, oneRow)
    IN  IF c.panic THEN c ELSE [panic |-> FALSE, rows |-> SortRows(c.rows)]

(***************************************************************************)
(* The environment: command lines, DNS answers and service responses.      *)
(***************************************************************************)
HostA == << "a" >>

HostB == << "b" >>

V4A == << "1", ".", "1", ".", "1", ".", "1" >>

V4B == << "2", ".", "2", ".", "2", ".", "2" >>

V6A == << ":", ":", "1" >>

LocX == << "1", ",", "2" >>

LocY == << "3", ",", "4" >>

Hosts == { HostA, HostB }

RECURSIVE SeqsUpTo(_, _)
SeqsUpTo(S, n) ==
    IF n = 0 THEN { <<>> }
    ELSE LET shorter == SeqsUpTo(S, n - 1)
         IN  shorter \cup { Append(q, x) : q \in shorter, x \in S }

\* flag.Args(): up to MaxArgs identifiers, repeats allowed.
ArgLists == SeqsUpTo(Hosts, MaxArgs)

\* -t: any integer; the default is 30.
WorkerCounts == { -1, 0, 1, 2, DefaultWorkers }

DnsFail == "no such host"

\* What net.LookupHost may return for an identifier: an IP literal resolves to
\* itself and the empty name fails; name "a" has two addresses or none, name
\* "b" shares an address with "a", or has an IPv6 address only, or fails.
DnsAnswers(hostname) ==
    IF hostname \in { V4A, V4B, V6A }
    THEN { [addresses |-> << hostname >>, err |-> NilErr] }
    ELSE IF hostname = HostA
    THEN { [addresses |-> << V4B, V4A >>, err |-> NilErr],
           [addresses |-> <<>>, err |-> NilErr] }
    ELSE IF hostname = HostB
    THEN { [addresses |-> << V4A, V4A >>, err |-> NilErr],
           [addresses |-> << V6A >>, err |-> NilErr],
           [addresses |-> <<>>, err |-> DnsFail] }
    ELSE { [addresses |-> <<>>, err |-> DnsFail] }

OkResponse(doc) ==
    [ getErr |-> FALSE, status |-> StatusOK, readErr |-> FALSE, rate |-> FALSE,
      wrongip |-> FALSE, jsonOk |-> TRUE, json |-> doc ]

\* The JSON object of a located address.
GeoDoc(ip, loc) ==
    [ Ip |-> ip, Hostname |-> "host", City |-> "city", Region |-> "region",
      Country |-> "US", Loc |-> loc, Org |-> "org" ]

\* Responses to the query for ip inside the pool: each address has its own
\* located answer and some of the other kinds.
GeoResponses(ip) ==
    IF ip = V4A
    THEN { OkResponse(GeoDoc(ip, LocX)),
           OkResponse(GeoDoc(ip, Placeholder)),
           [ OkResponse(<<>>) EXCEPT !.wrongip = TRUE ],
           [ OkResponse(<<>>) EXCEPT !.readErr = TRUE ] }
    ELSE IF ip = V4B
    THEN { OkResponse(GeoDoc(ip, LocY)),
           [ OkResponse(<<>>) EXCEPT !.getErr = TRUE ],
           [ OkResponse(<<>>) EXCEPT !.status = 429, !.rate = TRUE ] }
    ELSE { OkResponse(GeoDoc(ip, LocY)) }

\* Responses to the self-location query.
SelfResponses ==
    { OkResponse(GeoDoc(V4A, LocX)),
      [ OkResponse(<<>>) EXCEPT !.getErr = TRUE ] }

(***************************************************************************)
(* The program state.                                                      *)
(***************************************************************************)
VARIABLES
    pc,               \* where main is
    workers,          \* *workers (-t)
    args,             \* flag.Args()
    versionFlag,      \* -v
    externalOnlyFlag, \* -x
    oneRowFlag,       \* -1
    localIpInfo,      \* main's localIpInfo
    hostnames,        \* convertedArgs, the hostnames of runDNS
    dns,              \* resolveAllDNS: its channels, workers and loop counters
    allDnsReplies,    \* resolveAllDNS's allDnsReplies
    errors,           \* resolveAllDNS's errors
    ipAddrs,          \* what runDNS returned: the unique IPs
    ipToHostnames,    \*   and the map IP -> hostnames
    geo,              \* resolveAllIpInfo: its channels, workers and loop counters
    iir,              \* resolveAllIpInfo's iir
    allRows,          \* outputTable's allRows as handed to the renderer
    dnsResolved,      \* history: the pairs <<h, a>> with a listed in an error-free answer for h
    geoRequests,      \* history: the bag of IPs callRemoteService was called with by the pool
    crsIn,            \* a call of callRemoteService taken alone: its arguments
    crsOut            \*   and its result

vars ==
    << pc, workers, args, versionFlag, externalOnlyFlag, oneRowFlag, localIpInfo,
       hostnames, dns, allDnsReplies, errors, ipAddrs, ipToHostnames, geo, iir,
       allRows, dnsResolved, geoRequests, crsIn, crsOut >>

\* A pool before its function is entered: no channel, no worker.
\*   spawned     goroutines started
\*   idle        workers blocked receiving from workCh
\*   busy        the items workers are looking up (a bag)
\*   ready       the results workers are blocked sending (a bag)
\*   exited      workers whose range loop ended
\*   workClosed  close(workCh) has run
\*   resClosed   the deferred close of the results channel has run
\*   sent        items sent on workCh
\*   received    results received by the collector
NoPool ==
    [ spawned |-> 0, idle |-> 0, busy |-> EmptyBag, ready |-> EmptyBag,
      exited |-> 0, workClosed |-> FALSE, resClosed |-> FALSE,
      sent |-> 0, received |-> 0 ]

NoCall == [ ip |-> <<>>, resp |-> OkResponse(<<>>) ]

Init ==
    /\ pc = "main"
    /\ workers \in WorkerCounts
    /\ args \in ArgLists
    /\ versionFlag \in BOOLEAN
    /\ externalOnlyFlag \in BOOLEAN
    /\ oneRowFlag = FALSE
    /\ localIpInfo = ZeroResult(<<>>)
    /\ hostnames = <<>>
    /\ dns = NoPool
    /\ allDnsReplies = <<>>
    /\ errors = <<>>
    /\ ipAddrs = <<>>
    /\ ipToHostnames = <<>>
    /\ geo = NoPool
    /\ iir = <<>>
    /\ allRows = <<>>
    /\ dnsResolved = {}
    /\ geoRequests = EmptyBag
    /\ crsIn = NoCall
    /\ crsOut = ZeroResult(<<>>)

(***************************************************************************)
(* main, up to the first blocking send of resolveAllDNS.                   *)
(***************************************************************************)
\* Faulty variant, for sensitivity analysis: the worker count is not clamped to the number of items.
ActualWorkersUnclamped(w, n) == w

\* actualWorkers := workers; if len(items) < workers { actualWorkers = len(items) }
ActualWorkers(w, n) == IF n < w THEN n ELSE w

\* Faulty variant, for sensitivity analysis: the spawn loop runs with i <= actualWorkers, one worker too many.
SpawnCountOneMore(w, n) == IF ActualWorkers(w, n) >= 0 THEN ActualWorkers(w, n) + 1 ELSE 0

\* Faulty variant, for sensitivity analysis: the worker count is clamped to at
\* least 1 before the spawn loop.
SpawnCountAtLeastOne(w, n) == IF ActualWorkers(w, n) > 0 THEN ActualWorkers(w, n) ELSE 1

\* for i := 0; i < actualWorkers; i++ { go work(...) }: the goroutines started.
SpawnCount(w, n) == IF ActualWorkers(w, n) > 0 THEN ActualWorkers(w, n) ELSE 0

\* A pool whose channels are made and whose workers are started.
StartedPool(w, n) ==
    [ NoPool EXCEPT !.spawned = SpawnCount(w, n), !.idle = SpawnCount(w, n) ]

\* main: flag.Parse, the version flag, the self-location query.
MainStart ==
    /\ pc = "main"
    /\ IF versionFlag
       THEN /\ pc' = "exit"
            /\ UNCHANGED localIpInfo
       ELSE /\ \E resp \in SelfResponses :
                  localIpInfo' = CallRemoteService(<<>>, resp)
            /\ pc' = "args"
    /\ UNCHANGED << workers, args, versionFlag, externalOnlyFlag, oneRowFlag,
                    hostnames, dns, allDnsReplies, errors, ipAddrs,
                    ipToHostnames, geo, iir, allRows, dnsResolved, geoRequests,
                    crsIn, crsOut >>

\* Faulty variant, for sensitivity analysis: the -x test is missing, so the run
\* goes on to truncateArgParts and runDNS.
MainArgsIgnoresExternalOnly ==
    /\ pc = "args"
    /\ LET given == IF Len(args) = 0 THEN << localIpInfo.Ip >> ELSE args
           convertedArgs == TruncateArgParts(given)
       IN  /\ hostnames' = convertedArgs
           /\ dns' = StartedPool(workers, Len(convertedArgs))
           /\ pc' = "dns_send"
    /\ UNCHANGED << workers, args, versionFlag, externalOnlyFlag, oneRowFlag,
                    localIpInfo, allDnsReplies, errors, ipAddrs, ipToHostnames,
                    geo, iir, allRows, dnsResolved, geoRequests, crsIn, crsOut >>

\* main: -x, the default argument, truncateArgParts, and runDNS ->
\* resolveAllDNS until its workers are started.
MainArgs ==
    /\ pc = "args"
    /\ IF externalOnlyFlag
       THEN /\ pc' = "exit"
            /\ UNCHANGED << hostnames, dns >>
       ELSE LET given == IF Len(args) = 0 THEN << localIpInfo.Ip >> ELSE args
                convertedArgs == TruncateArgParts(given)
            IN  /\ hostnames' = convertedArgs
                /\ dns' = StartedPool(workers, Len(convertedArgs))
                /\ pc' = "dns_send"
    /\ UNCHANGED << workers, args, versionFlag, externalOnlyFlag, oneRowFlag,
                    localIpInfo, allDnsReplies, errors, ipAddrs, ipToHostnames,
                    geo, iir, allRows, dnsResolved, geoRequests, crsIn, crsOut >>

(***************************************************************************)
(* The DNS pool: resolveAllDNS (main's goroutine) and workDNS.             *)
(***************************************************************************)
One(x) == SetToBag({x})

\* workCh <- host: an unbuffered send, taken by a worker blocked in its range.
ResolveAllDNSSend ==
    /\ pc = "dns_send"
    /\ dns.sent < Len(hostnames)
    /\ dns.idle > 0
    /\ dns' = [dns EXCEPT !.sent = @ + 1, !.idle = @ - 1,
                          !.busy = @ (+) One(hostnames[dns.sent + 1])]
    /\ UNCHANGED << pc, workers, args, versionFlag, externalOnlyFlag, oneRowFlag,
                    localIpInfo, hostnames, allDnsReplies, errors, ipAddrs,
                    ipToHostnames, geo, iir, allRows, dnsResolved, geoRequests,
                    crsIn, crsOut >>

\* Faulty variant, for sensitivity analysis: close(workCh) sits inside the send
\* loop's last iteration, before the send.
ResolveAllDNSCloseOneEarly ==
    /\ pc = "dns_send"
    /\ dns.sent >= Len(hostnames) - 1
    /\ dns' = [dns EXCEPT !.workClosed = TRUE]
    /\ pc' = "dns_collect"
    /\ UNCHANGED << workers, args, versionFlag, externalOnlyFlag, oneRowFlag,
                    localIpInfo, hostnames, allDnsReplies, errors, ipAddrs,
                    ipToHostnames, geo, iir, allRows, dnsResolved, geoRequests,
                    crsIn, crsOut >>

\* close(workCh) after the last send; the collector's loop begins.
ResolveAllDNSClose ==
    /\ pc = "dns_send"
    /\ dns.sent = Len(hostnames)
    /\ dns' = [dns EXCEPT !.workClosed = TRUE]
    /\ pc' = "dns_collect"
    /\ UNCHANGED << workers, args, versionFlag, externalOnlyFlag, oneRowFlag,
                    localIpInfo, hostnames, allDnsReplies, errors, ipAddrs,
                    ipToHostnames, geo, iir, allRows, dnsResolved, geoRequests,
                    crsIn, crsOut >>

\* workDNS: net.LookupHost(hostname) returns; the worker now blocks sending.
WorkDNSLookup ==
    /\ \E hostname \in BagToSet(dns.busy) :
         \E answer \in DnsAnswers(hostname) :
            /\ dns' = [dns EXCEPT
                         !.busy = @ (-) One(hostname),
                         !.ready = @ (+) One([hostname  |-> hostname,
                                              addresses |-> answer.addresses,
                                              err       |-> answer.err])]
            /\ dnsResolved' =
                 IF answer.err = NilErr
                 THEN dnsResolved \cup
                        { << hostname, answer.addresses[k] >> :
                             k \in 1..Len(answer.addresses) }
                 ELSE dnsResolved
    /\ UNCHANGED << pc, workers, args, versionFlag, externalOnlyFlag, oneRowFlag,
                    localIpInfo, hostnames, allDnsReplies, errors, ipAddrs,
                    ipToHostnames, geo, iir, allRows, geoRequests, crsIn, crsOut >>

\* Faulty variant, for sensitivity analysis: the collector without its
\* len(addresses) > 0 test: an error-free reply with no address is kept as a
\* successful reply instead of being recorded as an error.
ResolveAllDNSCollectKeepsEmpty ==
    /\ pc = "dns_collect"
    /\ dns.received < Len(hostnames)
    /\ \E dnsResponse \in BagToSet(dns.ready) :
         /\ dns' = [dns EXCEPT !.ready = @ (-) One(dnsResponse),
                               !.idle = @ + 1, !.received = @ + 1]
         /\ IF dnsResponse.err # NilErr
            THEN /\ errors' = Append(errors, [hostname |-> dnsResponse.hostname,
                                              what |-> "DNS lookup failed"])
                 /\ UNCHANGED allDnsReplies
            ELSE /\ allDnsReplies' = Append(allDnsReplies, dnsResponse)
                 /\ UNCHANGED errors
    /\ UNCHANGED << pc, workers, args, versionFlag, externalOnlyFlag, oneRowFlag,
                    localIpInfo, hostnames, ipAddrs, ipToHostnames, geo, iir,
                    allRows, dnsResolved, geoRequests, crsIn, crsOut >>

\* dnsResponse := <-dnsResponseCh and the body of the collector's loop; the
\* worker that sent it is back at its range.
ResolveAllDNSCollect ==
    /\ pc = "dns_collect"
    /\ dns.received < Len(hostnames)
    /\ \E dnsResponse \in BagToSet(dns.ready) :
         /\ dns' = [dns EXCEPT !.ready = @ (-) One(dnsResponse),
                               !.idle = @ + 1, !.received = @ + 1]
         /\ IF dnsResponse.err # NilErr
            THEN /\ errors' = Append(errors, [hostname |-> dnsResponse.hostname,
                                              what |-> "DNS lookup failed"])
                 /\ UNCHANGED allDnsReplies
            ELSE IF Len(dnsResponse.addresses) > 0
            THEN /\ allDnsReplies' = Append(allDnsReplies, dnsResponse)
                 /\ UNCHANGED errors
            ELSE /\ errors' = Append(errors, [hostname |-> dnsResponse.hostname,
                                              what |-> "returned no addresses"])
                 /\ UNCHANGED allDnsReplies
    /\ UNCHANGED << pc, workers, args, versionFlag, externalOnlyFlag, oneRowFlag,
                    localIpInfo, hostnames, ipAddrs, ipToHostnames, geo, iir,
                    allRows, dnsResolved, geoRequests, crsIn, crsOut >>

\* workDNS: the range over the closed workCh ends and the goroutine returns.
WorkDNSExit ==
    /\ dns.workClosed
    /\ dns.idle > 0
    /\ dns' = [dns EXCEPT !.idle = @ - 1, !.exited = @ + 1]
    /\ UNCHANGED << pc, workers, args, versionFlag, externalOnlyFlag, oneRowFlag,
                    localIpInfo, hostnames, allDnsReplies, errors, ipAddrs,
                    ipToHostnames, geo, iir, allRows, dnsResolved, geoRequests,
                    crsIn, crsOut >>

\* Faulty variant, for sensitivity analysis: the collector's loop ends one
\* outcome early (i < numResultsExpected - 1).
RunDNSReturnOneEarly ==
    /\ pc = "dns_collect"
    /\ dns.received >= Len(hostnames) - 1
    /\ dns' = [dns EXCEPT !.resClosed = TRUE]
    /\ LET r == RunDNSResult(allDnsReplies)
       IN  /\ ipAddrs' = r.ipAddrs
           /\ ipToHostnames' = r.ipToHostnames
           /\ IF Len(r.ipAddrs) = 0
              THEN /\ pc' = "output"
                   /\ UNCHANGED geo
              ELSE /\ pc' = "geo_send"
                   /\ geo' = StartedPool(workers, Len(r.ipAddrs))
    /\ allDnsReplies' = <<>>
    /\ errors' = <<>>
    /\ UNCHANGED << workers, args, versionFlag, externalOnlyFlag, oneRowFlag,
                    localIpInfo, hostnames, iir, allRows, dnsResolved,
                    geoRequests, crsIn, crsOut >>

\* resolveAllDNS returns (its deferred close runs), runDNS aggregates and
\* returns, and main enters resolveAllIpInfo: an empty list returns at once,
\* otherwise the channels are made and the workers started.
RunDNSReturn ==
    /\ pc = "dns_collect"
    /\ dns.received = Len(hostnames)
    /\ dns' = [dns EXCEPT !.resClosed = TRUE]
    /\ LET r == RunDNSResult(allDnsReplies)
       IN  /\ ipAddrs' = r.ipAddrs
           /\ ipToHostnames' = r.ipToHostnames
           /\ IF Len(r.ipAddrs) = 0
              THEN /\ pc' = "output"
                   /\ UNCHANGED geo
              ELSE /\ pc' = "geo_send"
                   /\ geo' = StartedPool(workers, Len(r.ipAddrs))
    /\ allDnsReplies' = <<>>
    /\ errors' = <<>>
    /\ UNCHANGED << workers, args, versionFlag, externalOnlyFlag, oneRowFlag,
                    localIpInfo, hostnames, iir, allRows, dnsResolved,
                    geoRequests, crsIn, crsOut >>

(***************************************************************************)
(* The geolocation pool: resolveAllIpInfo and workIpInfoLookup.            *)
(***************************************************************************)
\* workCh <- ip
ResolveAllIpInfoSend ==
    /\ pc = "geo_send"
    /\ geo.sent < Len(ipAddrs)
    /\ geo.idle > 0
    /\ geo' = [geo EXCEPT !.sent = @ + 1, !.idle = @ - 1,
                          !.busy = @ (+) One(ipAddrs[geo.sent + 1])]
    /\ UNCHANGED << pc, workers, args, versionFlag, externalOnlyFlag, oneRowFlag,
                    localIpInfo, hostnames, dns, allDnsReplies, errors, ipAddrs,
                    ipToHostnames, iir, allRows, dnsResolved, geoRequests,
                    crsIn, crsOut >>

\* close(workCh) after the last send; the collector's loop begins.
ResolveAllIpInfoClose ==
    /\ pc = "geo_send"
    /\ geo.sent = Len(ipAddrs)
    /\ geo' = [geo EXCEPT !.workClosed = TRUE]
    /\ pc' = "geo_collect"
    /\ UNCHANGED << workers, args, versionFlag, externalOnlyFlag, oneRowFlag,
                    localIpInfo, hostnames, dns, allDnsReplies, errors, ipAddrs,
                    ipToHostnames, iir, allRows, dnsResolved, geoRequests,
                    crsIn, crsOut >>

\* workIpInfoLookup: obj := callRemoteService(ip) returns; the worker now
\* blocks sending obj.
WorkIpInfoLookup ==
    /\ \E ip \in BagToSet(geo.busy) :
         \E resp \in GeoResponses(ip) :
            /\ geo' = [geo EXCEPT
                         !.busy = @ (-) One(ip),
                         !.ready = @ (+) One(CallRemoteService(ip, resp))]
            /\ geoRequests' = geoRequests (+) One(ip)
    /\ UNCHANGED << pc, workers, args, versionFlag, externalOnlyFlag, oneRowFlag,
                    localIpInfo, hostnames, dns, allDnsReplies, errors, ipAddrs,
                    ipToHostnames, iir, allRows, dnsResolved, crsIn, crsOut >>

\* Faulty variant, for sensitivity analysis: the collector drops a result that
\* carries an error instead of appending it.
ResolveAllIpInfoCollectDropsFailed ==
    /\ pc = "geo_collect"
    /\ geo.received < Len(ipAddrs)
    /\ \E result \in BagToSet(geo.ready) :
         /\ geo' = [geo EXCEPT !.ready = @ (-) One(result),
                               !.idle = @ + 1, !.received = @ + 1]
         /\ iir' = IF result.ErrMsg # NilErr THEN iir ELSE Append(iir, result)
    /\ UNCHANGED << pc, workers, args, versionFlag, externalOnlyFlag, oneRowFlag,
                    localIpInfo, hostnames, dns, allDnsReplies, errors, ipAddrs,
                    ipToHostnames, allRows, dnsResolved, geoRequests, crsIn,
                    crsOut >>

\* result := <-resultsCh; iir = append(iir, result)
ResolveAllIpInfoCollect ==
    /\ pc = "geo_collect"
    /\ geo.received < Len(ipAddrs)
    /\ \E result \in BagToSet(geo.ready) :
         /\ geo' = [geo EXCEPT !.ready = @ (-) One(result),
                               !.idle = @ + 1, !.received = @ + 1]
         /\ iir' = Append(iir, result)
    /\ UNCHANGED << pc, workers, args, versionFlag, externalOnlyFlag, oneRowFlag,
                    localIpInfo, hostnames, dns, allDnsReplies, errors, ipAddrs,
                    ipToHostnames, allRows, dnsResolved, geoRequests, crsIn,
                    crsOut >>

\* workIpInfoLookup: the range over the closed workCh ends.
WorkIpInfoExit ==
    /\ geo.workClosed
    /\ geo.idle > 0
    /\ geo' = [geo EXCEPT !.idle = @ - 1, !.exited = @ + 1]
    /\ UNCHANGED << pc, workers, args, versionFlag, externalOnlyFlag, oneRowFlag,
                    localIpInfo, hostnames, dns, allDnsReplies, errors, ipAddrs,
                    ipToHostnames, iir, allRows, dnsResolved, geoRequests,
                    crsIn, crsOut >>

\* Faulty variant, for sensitivity analysis: the collector's loop ends one
\* result early (i < numResultsExpected - 1), and the deferred close runs.
ResolveAllIpInfoReturnOneEarly ==
    /\ pc = "geo_collect"
    /\ geo.received >= Len(ipAddrs) - 1
    /\ geo' = [geo EXCEPT !.resClosed = TRUE]
    /\ pc' = "output"
    /\ UNCHANGED << workers, args, versionFlag, externalOnlyFlag, oneRowFlag,
                    localIpInfo, hostnames, dns, allDnsReplies, errors, ipAddrs,
                    ipToHostnames, iir, allRows, dnsResolved, geoRequests,
                    crsIn, crsOut >>

\* resolveAllIpInfo returns iir; its deferred close(resultsCh) runs.
ResolveAllIpInfoReturn ==
    /\ pc = "geo_collect"
    /\ geo.received = Len(ipAddrs)
    /\ geo' = [geo EXCEPT !.resClosed = TRUE]
    /\ pc' = "output"
    /\ UNCHANGED << workers, args, versionFlag, externalOnlyFlag, oneRowFlag,
                    localIpInfo, hostnames, dns, allDnsReplies, errors, ipAddrs,
                    ipToHostnames, iir, allRows, dnsResolved, geoRequests,
                    crsIn, crsOut >>

(***************************************************************************)
(* main: outputTable and the end of the run.  The -1 flag is read here,    *)
(* where its value first matters.                                          *)
(***************************************************************************)
MainOutput ==
    /\ pc = "output"
    /\ \E oneRow \in BOOLEAN :
         LET t == OutputTable(iir, ipToHostnames, localIpInfo.Loc, oneRow)
         IN  /\ oneRowFlag' = oneRow
             /\ IF t.panic
                THEN /\ pc' = "panic"
                     /\ UNCHANGED allRows
                ELSE /\ pc' = "exit"
                     /\ allRows' = t.rows
    /\ UNCHANGED << workers, args, versionFlag, externalOnlyFlag, localIpInfo,
                    hostnames, dns, allDnsReplies, errors, ipAddrs,
                    ipToHostnames, geo, iir, dnsResolved, geoRequests, crsIn,
                    crsOut >>

Next ==
    \/ MainStart
    \/ MainArgs
    \/ ResolveAllDNSSend
    \/ ResolveAllDNSClose
    \/ WorkDNSLookup
    \/ ResolveAllDNSCollect
    \/ WorkDNSExit
    \/ RunDNSReturn
    \/ ResolveAllIpInfoSend
    \/ ResolveAllIpInfoClose
    \/ WorkIpInfoLookup
    \/ ResolveAllIpInfoCollect
    \/ WorkIpInfoExit
    \/ ResolveAllIpInfoReturn
    \/ MainOutput

Spec == Init /\ [][Next]_vars

(***************************************************************************)
(* callRemoteService taken alone: one call on any response.                *)
(***************************************************************************)
AllResponses ==
    [ getErr : BOOLEAN, status : { StatusOK, 429, 404 }, readErr : BOOLEAN,
      rate : BOOLEAN, wrongip : BOOLEAN, jsonOk : BOOLEAN,
      json : { <<>>, GeoDoc(V4B, LocY) } ]

InitRemote ==
    /\ pc = "crs"
    /\ workers = DefaultWorkers
    /\ args = <<>>
    /\ versionFlag = FALSE
    /\ externalOnlyFlag = FALSE
    /\ oneRowFlag = FALSE
    /\ localIpInfo = ZeroResult(<<>>)
    /\ hostnames = <<>>
    /\ dns = NoPool
    /\ allDnsReplies = <<>>
    /\ errors = <<>>
    /\ ipAddrs = <<>>
    /\ ipToHostnames = <<>>
    /\ geo = NoPool
    /\ iir = <<>>
    /\ allRows = <<>>
    /\ dnsResolved = {}
    /\ geoRequests = EmptyBag
    /\ crsIn \in [ ip : { <<>>, V4A }, resp : AllResponses ]
    /\ crsOut = ZeroResult(<<>>)

RemoteCall ==
    /\ pc = "crs"
    /\ crsOut' = CallRemoteService(crsIn.ip, crsIn.resp)
    /\ pc' = "crs_done"
    /\ UNCHANGED << workers, args, versionFlag, externalOnlyFlag, oneRowFlag,
                    localIpInfo, hostnames, dns, allDnsReplies, errors, ipAddrs,
                    ipToHostnames, geo, iir, allRows, dnsResolved, geoRequests,
                    crsIn >>

NextRemote == RemoteCall

SpecRemote == InitRemote /\ [][NextRemote]_vars

(***************************************************************************)
(* outputTable taken alone: main at its call of outputTable, with any list *)
(* of records of distinct IPs, any index and either self-location result.  *)
(***************************************************************************)
TableIps == { V4A, V4B, V6A }

\* The responses behind the records: located, placeholder, an empty JSON
\* object (no loc), and a transport error.
TableResponses(ip) ==
    { OkResponse(GeoDoc(ip, IF ip = V4B THEN LocY ELSE LocX)),
      OkResponse(GeoDoc(ip, Placeholder)),
      OkResponse(<<>>),
      [ OkResponse(<<>>) EXCEPT !.getErr = TRUE ] }

TableRecords ==
    UNION { { CallRemoteService(ip, resp) : resp \in TableResponses(ip) } :
            ip \in TableIps }

\* iir: up to MaxRecords records, one per IP at most.
TableRecordLists ==
    { q \in SeqsUpTo(TableRecords, MaxRecords) :
         \A i, j \in 1..Len(q) : i # j => q[i].Ip # q[j].Ip }

\* ipToHostnames: any subset of the IPs as keys, one or two identifiers each.
TableIndexes ==
    UNION { [ D -> { << HostA >>, << HostB, HostA >> } ] : D \in SUBSET TableIps }

InitTable ==
    /\ pc = "output"
    /\ workers = DefaultWorkers
    /\ args = <<>>
    /\ versionFlag = FALSE
    /\ externalOnlyFlag = FALSE
    /\ oneRowFlag = FALSE
    /\ localIpInfo \in { CallRemoteService(<<>>, resp) : resp \in SelfResponses }
    /\ hostnames = <<>>
    /\ dns = NoPool
    /\ allDnsReplies = <<>>
    /\ errors = <<>>
    /\ ipAddrs = <<>>
    /\ ipToHostnames \in TableIndexes
    /\ geo = NoPool
    /\ iir \in TableRecordLists
    /\ allRows = <<>>
    /\ dnsResolved = {}
    /\ geoRequests = EmptyBag
    /\ crsIn = NoCall
    /\ crsOut = ZeroResult(<<>>)

NextTable == MainOutput

SpecTable == InitTable /\ [][NextTable]_vars

(***************************************************************************)
(* truncateArgParts taken alone: one call on a list of raw arguments.      *)
(***************************************************************************)
\* Raw arguments: [text/][scheme://][user@]host[:port][/path]
RawInputs ==
    { pre \o sch \o usr \o host \o port \o path :
        pre  \in { <<>>, << "a", "/" >> },
        sch  \in { <<>>, << "h", ":", "/", "/" >> },
        usr  \in { <<>>, << "u", "@" >> },
        host \in { HostA, V4A },
        port \in { <<>>, << ":", "8" >> },
        path \in { <<>>, << "/" >>, << "/", "p" >>, << "/", "p", "/", "c" >> } }

\* A second argument, to follow any first one.
RawSeconds == { << "u", "@", "b" >>, V4B \o << ":", "8" >> }

\* Malformed arguments: the bare separators, an empty string, a separator at
\* either end.
RawOdd ==
    { <<>>, << ":", "/", "/" >>, << "@" >>, << ":" >>, << "/" >>,
      << "a", "@" >>, << "@", "a" >>, << "a", ":" >>,
      << ":" >> \o V4A, V4A \o << ":" >>, V4A \o << "@" >>,
      << "a", ":", "/", "/" >>, << ":", "/", "/", "a" >>, << "/", "/", "a" >>,
      << "a", ":", "/" >> }

\* rawArgs: no argument, one, or two.
RawArgLists ==
    { <<>> } \cup { << r >> : r \in RawInputs \cup RawOdd }
             \cup { << r, t >> : r \in RawInputs, t \in RawSeconds }

InitTruncate ==
    /\ pc = "truncate"
    /\ workers = DefaultWorkers
    /\ args \in RawArgLists
    /\ versionFlag = FALSE
    /\ externalOnlyFlag = FALSE
    /\ oneRowFlag = FALSE
    /\ localIpInfo = ZeroResult(<<>>)
    /\ hostnames = <<>>
    /\ dns = NoPool
    /\ allDnsReplies = <<>>
    /\ errors = <<>>
    /\ ipAddrs = <<>>
    /\ ipToHostnames = <<>>
    /\ geo = NoPool
    /\ iir = <<>>
    /\ allRows = <<>>
    /\ dnsResolved = {}
    /\ geoRequests = EmptyBag
    /\ crsIn = NoCall
    /\ crsOut = ZeroResult(<<>>)

\* convertedArgs := truncateArgParts(args)
TruncateCall ==
    /\ pc = "truncate"
    /\ IF \E entry \in 1..Len(args) : TruncateEntryPanics(args[entry])
       THEN /\ pc' = "panic"
            /\ UNCHANGED hostnames
       ELSE /\ hostnames' = TruncateArgParts(args)
            /\ pc' = "truncate_done"
    /\ UNCHANGED << workers, args, versionFlag, externalOnlyFlag, oneRowFlag,
                    localIpInfo, dns, allDnsReplies, errors, ipAddrs,
                    ipToHostnames, geo, iir, allRows, dnsResolved, geoRequests,
                    crsIn, crsOut >>

NextTruncate == TruncateCall

SpecTruncate == InitTruncate /\ [][NextTruncate]_vars

(***************************************************************************)
(* Properties.                                                             *)
(***************************************************************************)
Min(a, b) == IF a < b THEN a ELSE b

Range(q) == { q[k] : k \in 1..Len(q) }

NoDup(q) == \A i, j \in 1..Len(q) : i # j => q[i] # q[j]

Occurrences(x, q) == Cardinality({ k \in 1..Len(q) : q[k] = x })

\* Items taken from the dispatch channel whose result is not yet collected.
InFlight(pool) == BagCardinality(pool.busy) + BagCardinality(pool.ready)

\* A step of the DNS pool, of the geolocation pool.
DnsPoolStep ==
    \/ ResolveAllDNSSend
    \/ ResolveAllDNSClose
    \/ WorkDNSLookup
    \/ ResolveAllDNSCollect
    \/ RunDNSReturn

GeoPoolStep ==
    \/ ResolveAllIpInfoSend
    \/ ResolveAllIpInfoClose
    \/ WorkIpInfoLookup
    \/ ResolveAllIpInfoCollect
    \/ ResolveAllIpInfoReturn

RunDNSReturned == pc \in { "geo_send", "geo_collect", "output", "exit", "panic" }

GeoPoolReturned == pc \in { "output", "exit", "panic" }

\* C1: for every W >= 1 and every list of M >= 0 unique IPs, resolveAllIpInfo
\* never deadlocks (while main is inside it, the pool can take a step), it
\* returns with exactly one collected record per dispatched IP, and for M = 0
\* it returns without starting a worker.
C1_GeoPoolCompletes ==
    workers >= 1 =>
        /\ pc \in { "geo_send", "geo_collect" } => ENABLED GeoPoolStep
        /\ GeoPoolReturned =>
              /\ Len(iir) = Len(ipAddrs)
              /\ \A k \in 1..Len(ipAddrs) :
                    Cardinality({ j \in 1..Len(iir) : iir[j].Ip = ipAddrs[k] }) = 1
        /\ Len(ipAddrs) = 0 => geo.spawned = 0

\* C2: in resolveAllDNS with W >= 1 workers and N identifiers, every identifier
\* sent yields one dnsResponse the collector receives (while main is inside the
\* function, the pool can take a step), and when the collector's loop is over
\* the successful replies plus the recorded errors are exactly N.
C2_DnsPoolCompletes ==
    workers >= 1 =>
        /\ pc \in { "dns_send", "dns_collect" } => ENABLED DnsPoolStep
        /\ (pc = "dns_collect" /\ dns.received = Len(hostnames)) =>
              /\ Len(allDnsReplies) + Len(errors) = Len(hostnames)
              /\ InFlight(dns) = 0

\* C3: in either pool (W >= 1) the in-flight items never exceed min(W, N), and
\* a send on the dispatch channel happens only by handing the item to a worker
\* that was free: an item counts as sent only once a worker holds it.
C3InFlightBound ==
    workers >= 1 =>
        /\ InFlight(dns) <= Min(workers, Len(hostnames))
        /\ InFlight(geo) <= Min(workers, Len(ipAddrs))
        /\ dns.sent = InFlight(dns) + dns.received
        /\ geo.sent = InFlight(geo) + geo.received

C3SendTakesFreeWorker ==
    /\ dns'.sent # dns.sent => (dns.idle > 0 /\ dns'.idle = dns.idle - 1)
    /\ geo'.sent # geo.sent => (geo.idle > 0 /\ geo'.idle = geo.idle - 1)

C3_Backpressure == [](C3InFlightBound) /\ [][C3SendTakesFreeWorker]_vars

\* C3 witness: one worker, two IPs: the worker holds the first, and the
\* dispatcher's send of the second is blocked.
C3_Witness ==
    /\ workers = 1
    /\ pc = "geo_send"
    /\ Len(ipAddrs) = 2
    /\ geo.sent = 1
    /\ geo.idle = 0
    /\ InFlight(geo) = 1
    /\ ~ENABLED ResolveAllIpInfoSend

\* C4: for W >= 1, resolveAllDNS starts exactly min(W, N) workers and
\* resolveAllIpInfo exactly min(W, M); W = 30 with 2 items starts 2, and there
\* are never more workers than items.
C4_WorkerCount ==
    workers >= 1 =>
        /\ pc \in { "dns_send", "dns_collect" } \cup { "geo_send", "geo_collect" } =>
              /\ dns.spawned = Min(workers, Len(hostnames))
              /\ dns.spawned <= Len(hostnames)
        /\ pc \in { "geo_send", "geo_collect" } =>
              /\ geo.spawned = Min(workers, Len(ipAddrs))
              /\ geo.spawned <= Len(ipAddrs)
        /\ (workers = DefaultWorkers /\ pc = "dns_send" /\ Len(hostnames) = 2)
              => dns.spawned = 2
        /\ (workers = DefaultWorkers /\ pc = "geo_send" /\ Len(ipAddrs) = 2)
              => geo.spawned = 2

\* C4 witness: -t 30, two identifiers, two unique IPs: two workers in each pool.
C4_Witness ==
    /\ workers = DefaultWorkers
    /\ pc = "geo_send"
    /\ Len(hostnames) = 2
    /\ Len(ipAddrs) = 2
    /\ dns.spawned = 2
    /\ geo.spawned = 2

\* C5: the list runDNS returns has no duplicate, the pool calls
\* callRemoteService at most once per IP and only for IPs of the list, and once
\* the pool has returned it has called it exactly once for each of them.
C5_OneRequestPerIP ==
    /\ NoDup(ipAddrs)
    /\ \A ip \in BagToSet(geoRequests) :
          CopiesIn(ip, geoRequests) = 1 /\ ip \in Range(ipAddrs)
    /\ GeoPoolReturned =>
          \A ip \in Range(ipAddrs) : CopiesIn(ip, geoRequests) = 1

\* C5 witness: "a" and "b" both resolve to 1.1.1.1, "b" listing it twice in one
\* answer; the run ends having queried 1.1.1.1 once.
C5_Witness ==
    /\ pc = "exit"
    /\ << HostA, V4A >> \in dnsResolved
    /\ << HostB, V4A >> \in dnsResolved
    /\ Occurrences(V4A, ipAddrs) = 1
    /\ CopiesIn(V4A, geoRequests) = 1

\* C6: after runDNS, h occurs in ipToHostnames[a] exactly once if some
\* error-free DNS answer for h listed a, and not at all otherwise.
C6_IndexMatchesAnswers ==
    RunDNSReturned =>
        \A a \in (DOMAIN ipToHostnames) \cup { p[2] : p \in dnsResolved } :
            \A h \in Range(MapGet(ipToHostnames, a)) \cup { p[1] : p \in dnsResolved } :
                Occurrences(h, MapGet(ipToHostnames, a))
                    = IF << h, a >> \in dnsResolved THEN 1 ELSE 0

\* C6 witness: "b" given twice, an answer listing 1.1.1.1 twice: one entry.
C6_Witness ==
    /\ pc = "exit"
    /\ args = << HostB, HostB >>
    /\ << HostB, V4A >> \in dnsResolved
    /\ MapGet(ipToHostnames, V4A) = << HostB >>

\* The records of iir in the order their IPs were dispatched.
InDispatchOrder ==
    [ k \in 1..Len(ipAddrs) |-> CHOOSE r \in Range(iir) : r.Ip = ipAddrs[k] ]

\* C7: the rows handed to the renderer do not depend on the completion order
\* of the workers: they ascend by identifier and are the rows the same records
\* give when collected in dispatch order.
C7_RowsDeterministic ==
    (pc = "exit" /\ Len(iir) = Len(ipAddrs)) =>
        /\ \A k \in 1..(Len(allRows) - 1) :
              ~StrLess(RowHost(allRows[k + 1]), RowHost(allRows[k]))
        /\ allRows = OutputTable(InDispatchOrder, ipToHostnames, localIpInfo.Loc,
                                 oneRowFlag).rows

\* C8: when the self-location query returned an error the run stops there:
\* no pool is started and the program does not crash.
C8_SelfFailureAborts ==
    localIpInfo.ErrMsg # NilErr =>
        /\ pc \in { "args", "exit" }
        /\ dns = NoPool
        /\ geo = NoPool

\* The row of identifier h for the record of ip.
IsRowOf(row, h, ip) ==
    IF oneRowFlag THEN row[1] = h /\ row[2] = ip
    ELSE row[1] = h \o Newline \o ip

\* C9: a record for an IP the service called invalid carries the sentinel
\* fields and no error, and the report has a row for each identifier that
\* resolved to that IP.
C9_InvalidIPReported ==
    /\ \A r \in BagToSet(geo.ready) \cup Range(iir) :
          r.City = "Invalid IP" =>
              /\ r.ErrMsg = NilErr
              /\ r.Region = "N/A" /\ r.Country = "N/A" /\ r.Loc = NA
              /\ r.Org = "N/A" /\ r.Hostname = "N/A"
    /\ pc = "exit" =>
          \A r \in Range(iir) :
              r.City = "Invalid IP" =>
                  \A h \in Range(MapGet(ipToHostnames, r.Ip)) :
                      \E k \in 1..Len(allRows) : IsRowOf(allRows[k], h, r.Ip)

\* The call read a body: no transport error and no read error.
BodyRead == ~crsIn.resp.getErr /\ ~crsIn.resp.readErr

\* C10 as claimed: whatever the status code, a body with the rate-limit text
\* gives the rate-limit error.
C10_RateLimitAnyStatus ==
    (pc = "crs_done" /\ BodyRead /\ crsIn.resp.rate) => crsOut.ErrMsg = ErrRateLimit

\* C10 as amended: the rate-limit error is returned exactly for the responses
\* of status 200 whose body is read and contains the rate-limit text, so it is
\* told apart from the transport, status, body-read, invalid-IP and JSON
\* errors; a body with that text under another status gives the status error.
C10_RateLimitOn200 ==
    pc = "crs_done" =>
        /\ crsOut.ErrMsg = ErrRateLimit
              <=> (BodyRead /\ crsIn.resp.status = StatusOK /\ crsIn.resp.rate)
        /\ (~crsIn.resp.getErr /\ crsIn.resp.status # StatusOK)
              => crsOut.ErrMsg = ErrHttpStatus
        /\ ErrRateLimit \notin { NilErr, ErrHttpGet, ErrHttpStatus, ErrReadBody,
                                 ErrInvalidIP, ErrUnmarshal }

\* C10 witness: a 200 response whose body has the rate-limit text (and the
\* invalid-IP text as well) gave the rate-limit error.
C10_Witness ==
    /\ pc = "crs_done"
    /\ BodyRead
    /\ crsIn.resp.status = StatusOK
    /\ crsIn.resp.rate
    /\ crsIn.resp.wrongip
    /\ crsOut.ErrMsg = ErrRateLimit

\* A DNS outcome the collector treats as a failure.
DnsOutcomeFailed(r) == r.err # NilErr \/ Len(r.addresses) = 0

\* What runDNS returned holds the error-free answers and nothing else, and the
\* run went on to the geolocation stage when there was an address to look up.
C11Aggregated ==
    /\ (pc = "dns_collect") =>
          /\ \A k \in 1..Len(allDnsReplies) : ~DnsOutcomeFailed(allDnsReplies[k])
          /\ Len(allDnsReplies) + Len(errors) = dns.received
    /\ RunDNSReturned =>
          /\ \A a \in Range(ipAddrs) \cup DOMAIN ipToHostnames :
                \E p \in dnsResolved : p[2] = a
          /\ \A a \in DOMAIN ipToHostnames :
                \A h \in Range(ipToHostnames[a]) : << h, a >> \in dnsResolved
          /\ \A p \in dnsResolved :
                /\ p[2] \in Range(ipAddrs)
                /\ p[1] \in Range(MapGet(ipToHostnames, p[2]))
          /\ (dnsResolved # {} /\ workers >= 1) => geo.spawned >= 1

\* A step of the collector: the outcome it receives goes to the error list when
\* it failed and to the successful replies otherwise; and the step that leaves
\* the collector goes to the geolocation stage, whatever the error list holds.
C11CollectStep ==
    /\ dns'.received = dns.received + 1 =>
          \E r \in BagToSet(dns.ready) :
             /\ dns'.ready = dns.ready (-) One(r)
             /\ IF DnsOutcomeFailed(r)
                THEN /\ Len(errors') = Len(errors) + 1
                     /\ errors'[Len(errors')].hostname = r.hostname
                     /\ allDnsReplies' = allDnsReplies
                ELSE /\ allDnsReplies' = Append(allDnsReplies, r)
                     /\ errors' = errors
    /\ (pc = "dns_collect" /\ pc' # pc) =>
          /\ dns.received = Len(hostnames)
          /\ pc' = IF ipAddrs' = <<>> THEN "output" ELSE "geo_send"

\* C11: a DNS outcome with an error or with no address adds nothing to the
\* unique-IP list or to ipToHostnames and is recorded in the error list; the
\* outcomes of the other identifiers are aggregated all the same and the run
\* proceeds to the geolocation stage.
C11_DnsFailureIsolated == [](C11Aggregated) /\ [][C11CollectStep]_vars

\* C11 witness: "a" resolved and "b" failed; runDNS returned the addresses of
\* "a" only and the geolocation pool is started.
C11_Witness ==
    /\ pc = "geo_send"
    /\ workers >= 1
    /\ hostnames = << HostA, HostB >>
    /\ \A p \in dnsResolved : p[1] = HostA
    /\ ipAddrs = << V4B, V4A >>
    /\ MapGet(ipToHostnames, V4A) = << HostA >>
    /\ geo.spawned >= 1


\* The IP of a row handed to the renderer.
RowIp(row) == IF oneRowFlag THEN row[2] ELSE Split(row[1], Newline)[2]

\* The errors of a lookup that failed: transport, status, body read.
LookupErrors == { ErrHttpGet, ErrHttpStatus, ErrReadBody }

\* A record outputTable reports: no error and an IPv4 address.
Reported(r) == r.ErrMsg = NilErr /\ ~Contains(r.Ip, << ":" >>)

\* Once the pool has returned there is one record per dispatched IP, failed
\* or not; and when outputTable has returned, a failed IP has no row and every
\* reported record has the row of each identifier that resolved to its IP.
C12Records ==
    /\ (GeoPoolReturned /\ Len(ipAddrs) > 0) =>
          /\ Len(iir) = Len(ipAddrs)
          /\ \A k \in 1..Len(ipAddrs) : \E j \in 1..Len(iir) : iir[j].Ip = ipAddrs[k]
    /\ pc = "exit" =>
          \A j \in 1..Len(iir) :
             /\ iir[j].ErrMsg \in LookupErrors =>
                   \A k \in 1..Len(allRows) : RowIp(allRows[k]) # iir[j].Ip
             /\ Reported(iir[j]) =>
                   \A h \in Range(MapGet(ipToHostnames, iir[j].Ip)) :
                      \E k \in 1..Len(allRows) : IsRowOf(allRows[k], h, iir[j].Ip)

\* A step of the collector appends the record it receives, with or without an
\* error, and the pool is left only after one record per IP has been received.
C12CollectStep ==
    /\ geo'.received = geo.received + 1 =>
          \E r \in BagToSet(geo.ready) :
             /\ geo'.ready = geo.ready (-) One(r)
             /\ iir' = Append(iir, r)
    /\ (pc = "geo_collect" /\ pc' # pc) =>
          /\ geo.received = Len(ipAddrs)
          /\ pc' = "output"

\* C12: a geolocation lookup that fails (transport error, status other than
\* 200, body-read error) gives a record carrying the error, which the pool
\* collects like any other; the pool goes on and returns a record for every
\* IP; outputTable emits no row for the failed IP and the rows of the others.
C12_GeoFailureIsolated == [](C12Records) /\ [][C12CollectStep]_vars

\* C12 witness: the lookup of 2.2.2.2 failed in transport, 1.1.1.1 was located:
\* both records were collected and only 1.1.1.1 has a row.
C12_Witness ==
    /\ pc = "exit"
    /\ Len(iir) = 2
    /\ \E j \in 1..2 : iir[j].Ip = V4B /\ iir[j].ErrMsg = ErrHttpGet
    /\ \E j \in 1..2 : iir[j].Ip = V4A /\ iir[j].ErrMsg = NilErr
    /\ \E k \in 1..Len(allRows) : RowIp(allRows[k]) = V4A
    /\ \A k \in 1..Len(allRows) : RowIp(allRows[k]) # V4B


\* The distance, city and region columns of a row.
RowDistance(row) == IF oneRowFlag THEN row[9] ELSE row[5]

RowCity(row) == IF oneRowFlag THEN row[5] ELSE row[3][1]

RowRegion(row) == IF oneRowFlag THEN row[6] ELSE row[3][3]

\* loc is empty or the placeholder.
LocAbsent(r) == r.Loc = <<>> \/ r.Loc = Placeholder

\* C13: the rows of an error-free IPv4 record carry distance, city and region
\* "N/A" exactly when its loc is empty or the placeholder; otherwise they carry
\* the record's own city and region and the distance from the local loc to the
\* record's loc, never a value of another record; and the distance calculation
\* (the only step that can fail) is not run for an absent loc.
C13_PlaceholderRows ==
    /\ pc = "exit" =>
          \A j \in 1..Len(iir) : \A k \in 1..Len(allRows) :
             (Reported(iir[j]) /\ RowIp(allRows[k]) = iir[j].Ip) =>
                 /\ RowDistance(allRows[k]) = NA <=> LocAbsent(iir[j])
                 /\ RowCity(allRows[k]) = "N/A" <=> LocAbsent(iir[j])
                 /\ RowRegion(allRows[k]) = "N/A" <=> LocAbsent(iir[j])
                 /\ ~LocAbsent(iir[j]) =>
                       /\ RowCity(allRows[k]) = iir[j].City
                       /\ RowRegion(allRows[k]) = iir[j].Region
                       /\ RowDistance(allRows[k]) =
                             DistanceStr(Latlon2coord(localIpInfo.Loc),
                                         Latlon2coord(iir[j].Loc))
    /\ pc = "panic" =>
          \E j \in 1..Len(iir) : Reported(iir[j]) /\ ~LocAbsent(iir[j])

\* C13 witness: a located record followed by a record without loc, both with
\* identifiers: the second one's row has distance "N/A".
C13_Witness ==
    /\ pc = "exit"
    /\ Len(iir) = 2
    /\ Reported(iir[1]) /\ ~LocAbsent(iir[1])
    /\ Reported(iir[2]) /\ iir[2].Loc = <<>>
    /\ \E k \in 1..Len(allRows) :
          RowIp(allRows[k]) = iir[1].Ip /\ RowDistance(allRows[k]) # NA
    /\ \E k \in 1..Len(allRows) :
          RowIp(allRows[k]) = iir[2].Ip /\ RowDistance(allRows[k]) = NA


\* The geolocation stage has begun: its pool exists, or a request was made.
GeoStageBegun ==
    \/ geo # NoPool
    \/ geoRequests # EmptyBag
    \/ iir # <<>>
    \/ pc \in { "geo_send", "geo_collect" }

\* When the geolocation stage has begun, the DNS collector has received all N
\* outcomes, no DNS lookup is under way, and the IP list holds every resolved
\* address.
C14DnsDrained ==
    GeoStageBegun =>
        /\ dns.sent = Len(hostnames)
        /\ dns.received = Len(hostnames)
        /\ InFlight(dns) = 0
        /\ dns.workClosed
        /\ Range(ipAddrs) = { p[2] : p \in dnsResolved }

\* Nothing of the DNS stage moves after that: no send, no lookup, no receive,
\* and the IP list stays as it is.
C14DnsQuiet ==
    GeoStageBegun =>
        /\ dns'.sent = dns.sent
        /\ dns'.received = dns.received
        /\ dns'.busy = dns.busy
        /\ dns'.ready = dns.ready
        /\ ipAddrs' = ipAddrs
        /\ dnsResolved' = dnsResolved

\* C14: the pools run one after the other: no geolocation request is
\* dispatched before the DNS collector has received all N outcomes and the
\* unique-IP list is complete.
C14_PoolsSequential == [](C14DnsDrained) /\ [][C14DnsQuiet]_vars

\* C14 witness: two identifiers, both outcomes received, and the first IP has
\* just been handed to a geolocation worker.
C14_Witness ==
    /\ pc = "geo_send"
    /\ Len(hostnames) = 2
    /\ dns.received = 2
    /\ geo.sent = 1
    /\ BagCardinality(geo.busy) = 1


\* C15: in the rows handed to the renderer each row's identifier is less than
\* or equal to the next row's (bytewise order), in the one-row and in the
\* multi-line format, whatever the order in which the lookups completed.
C15_RowsAscend ==
    pc = "exit" =>
        \A k \in 1..(Len(allRows) - 1) :
            \/ RowHost(allRows[k]) = RowHost(allRows[k + 1])
            \/ StrLess(RowHost(allRows[k]), RowHost(allRows[k + 1]))

\* C15 witness: the DNS outcome of "b" was received before that of "a", so the
\* rows of 1.1.1.1 were appended as b, a; they are rendered as a, ..., b.
C15_Witness ==
    /\ pc = "exit"
    /\ MapGet(ipToHostnames, V4A) = << HostB, HostA >>
    /\ \E j \in 1..Len(iir) : iir[j].Ip = V4A /\ iir[j].ErrMsg = NilErr
    /\ Len(allRows) >= 2
    /\ RowHost(allRows[1]) = HostA
    /\ RowHost(allRows[Len(allRows)]) = HostB


\* The sum over the reported records of q of the length of their identifier
\* list in the index.
RECURSIVE ExpectedRowCount(_)
ExpectedRowCount(q) ==
    IF q = <<>> THEN 0
    ELSE (IF Reported(Head(q)) THEN Len(MapGet(ipToHostnames, Head(q).Ip)) ELSE 0)
         + ExpectedRowCount(Tail(q))

\* C16: for each error-free IPv4 record outputTable emits exactly one row per
\* identifier listed for its IP in ipToHostnames, so the rows number the sum of
\* those lists' lengths; a record whose IP has no entry gets no row and the
\* loop goes on with the next record; with a well-formed local loc nothing
\* crashes.
C16_RowPerIdentifier ==
    /\ pc = "exit" =>
          /\ Len(allRows) = ExpectedRowCount(iir)
          /\ \A j \in 1..Len(iir) :
                Reported(iir[j]) =>
                    /\ \A h \in Range(MapGet(ipToHostnames, iir[j].Ip)) :
                          Cardinality({ k \in 1..Len(allRows) :
                                          IsRowOf(allRows[k], h, iir[j].Ip) }) = 1
                    /\ iir[j].Ip \notin DOMAIN ipToHostnames =>
                          \A k \in 1..Len(allRows) : RowIp(allRows[k]) # iir[j].Ip
    /\ localIpInfo.ErrMsg = NilErr => pc # "panic"

\* C16 witness: a located record whose IP has no entry in the index, followed
\* by a record whose IP has two identifiers: two rows, both of the second.
C16_Witness ==
    /\ pc = "exit"
    /\ Len(iir) = 2
    /\ Reported(iir[1]) /\ ~LocAbsent(iir[1])
    /\ iir[1].Ip \notin DOMAIN ipToHostnames
    /\ Reported(iir[2])
    /\ MapGet(ipToHostnames, iir[2].Ip) = << HostB, HostA >>
    /\ Len(allRows) = 2
    /\ \A k \in 1..2 : RowIp(allRows[k]) = iir[2].Ip


\* An IPv4 record: no ':' in its IP.
IsV4Record(r) == ~Contains(r.Ip, << ":" >>)

\* C17: no row is emitted for a record whose IP contains ':', with or without
\* an error or a loc; and the IPv4 records are not affected: outputTable gives
\* what it gives for the same list without the IPv6 records.
C17_NoIPv6Rows ==
    LET t == OutputTable(SelectSeq(iir, IsV4Record), ipToHostnames,
                         localIpInfo.Loc, oneRowFlag)
    IN  /\ pc = "exit" =>
              /\ \A k \in 1..Len(allRows) : ~Contains(RowIp(allRows[k]), << ":" >>)
              /\ ~t.panic
              /\ allRows = t.rows
        /\ pc = "panic" => t.panic

\* C17 witness: an error-free IPv6 record with a loc and identifiers in the
\* index, next to an IPv4 record that has rows.
C17_Witness ==
    /\ pc = "exit"
    /\ \E j \in 1..Len(iir) :
          /\ iir[j].Ip = V6A
          /\ iir[j].ErrMsg = NilErr
          /\ ~LocAbsent(iir[j])
    /\ V6A \in DOMAIN ipToHostnames
    /\ \E j \in 1..Len(iir) : Reported(iir[j]) /\ iir[j].Ip \in DOMAIN ipToHostnames
    /\ Len(allRows) >= 1


\* With -x no pool exists, no DNS lookup and no per-IP request was made, and a
\* run that ended (without -v) holds the result of the self-location query.
C18NoPools ==
    externalOnlyFlag =>
        /\ pc \in { "main", "args", "exit" }
        /\ hostnames = <<>>
        /\ dns = NoPool
        /\ geo = NoPool
        /\ dnsResolved = {}
        /\ geoRequests = EmptyBag
        /\ iir = <<>>
        /\ (pc = "exit" /\ ~versionFlag) =>
              localIpInfo \in { CallRemoteService(<<>>, resp) : resp \in SelfResponses }

\* With -x the self-location query is made once, by main's first step, and the
\* step after it ends the run.
C18OneCall ==
    externalOnlyFlag =>
        /\ localIpInfo' # localIpInfo => (pc = "main" /\ pc' = "args")
        /\ pc = "args" => pc' = "exit"

\* C18: with -x (and without -v, which ends the run before any call) the run
\* makes one remote call, the self-location query, and exits: no DNS lookup is
\* dispatched, no pool worker is started, no per-IP request is made.
C18_ExternalOnly == [](C18NoPools) /\ [][C18OneCall]_vars

\* C18 witness: -x with two identifiers on the command line: the run ended
\* after the self-location query, which answered 1.1.1.1.
C18_Witness ==
    /\ externalOnlyFlag
    /\ ~versionFlag
    /\ pc = "exit"
    /\ Len(args) = 2
    /\ localIpInfo.Ip = V4A


SchemeSep == << ":", "/", "/" >>

\* The text of s before the first sep, all of s when sep does not occur.
Before(s, sep) ==
    IF Contains(s, sep) THEN SubSeq(s, 1, Index(s, sep) - 1) ELSE s

\* The text of s after the first sep, all of s when sep does not occur.
After(s, sep) ==
    IF Contains(s, sep) THEN SubSeq(s, Index(s, sep) + Len(sep), Len(s)) ELSE s

\* The authority segment of a string containing "://": the text between the
\* first "://" and the next "/" after it, or the end of the string.
Authority(raw) == Before(After(raw, SchemeSep), << "/" >>)

\* C19: for every raw argument that contains "://", truncateArgParts returns
\* its authority segment, also when a "/" occurs before the "://".
C19_UrlGivesAuthority ==
    pc = "truncate_done" =>
        \A k \in 1..Len(args) :
            Contains(args[k], SchemeSep) =>
                /\ k <= Len(hostnames)
                /\ hostnames[k] = Authority(args[k])

\* The bare host of a raw argument: scheme, path, user-info and port removed.
BareHost(raw) ==
    Before(After(Before(After(raw, SchemeSep), << "/" >>), << "@" >>), << ":" >>)

\* C20: truncateArgParts returns one entry per raw argument, in the order of
\* the arguments, each the bare hostname or IP literal of its argument with
\* scheme, path, user-info and port removed.
C20_BareHostPerArgument ==
    pc = "truncate_done" =>
        /\ Len(hostnames) = Len(args)
        /\ \A k \in 1..Len(args) : hostnames[k] = BareHost(args[k])


\* The argument takes none of the three branches of truncateArgParts.
PlainArgument(raw) ==
    /\ ~Contains(raw, SchemeSep)
    /\ ~Contains(raw, << "@" >>)
    /\ ~(V4reMatch(raw) /\ Contains(raw, << ":" >>))

\* C21: truncateArgParts raises nothing, whatever the strings: in the "://"
\* branch the split has at least 3 parts, in the "@" branch it has 2, in the
\* port branch the slice ends at the position of a ':' that exists; and an
\* argument of none of the three kinds is returned unchanged.
C21_TruncateNeverPanics ==
    /\ pc # "panic"
    /\ \A k \in 1..Len(args) :
          /\ Contains(args[k], SchemeSep) =>
                Len(SplitN(args[k], << "/" >>, 4)) >= 3
          /\ Contains(args[k], << "@" >>) =>
                Len(SplitN(args[k], << "@" >>, 2)) = 2
          /\ Contains(args[k], << ":" >>) =>
                Index(args[k], << ":" >>) \in 1..Len(args[k])
    /\ pc = "truncate_done" =>
          /\ Len(hostnames) = Len(args)
          /\ \A k \in 1..Len(args) :
                PlainArgument(args[k]) => hostnames[k] = args[k]

\* C21 witness: the shortest string of the "://" branch, "://" itself, gave
\* the empty entry and no panic.
C21_Witness ==
    /\ pc = "truncate_done"
    /\ args = << SchemeSep >>
    /\ hostnames = << <<>> >>


\* The phase of a pool invocation: 0 Idle, 1 Dispatching, 2 Draining, 3 Done.
PoolPhase(pool, at, sendPc) ==
    IF pool.resClosed THEN 3
    ELSE IF pool.workClosed THEN 2
    ELSE IF at = sendPc THEN 1
    ELSE 0

\* What holds of a pool of n items in each phase.
PhaseOrder(pool, n) ==
    /\ pool.workClosed => pool.sent = n
    /\ pool.received > 0 => pool.workClosed
    /\ pool.resClosed => (pool.workClosed /\ pool.received = n)
    /\ pool.received <= pool.sent

C23Phases ==
    /\ PhaseOrder(dns, Len(hostnames))
    /\ PhaseOrder(geo, Len(ipAddrs))
    /\ pc = "dns_collect" <=> PoolPhase(dns, pc, "dns_send") = 2
    /\ pc = "geo_collect" <=> PoolPhase(geo, pc, "geo_send") = 2

\* A step keeps a pool's phase or moves it to the next one; the dispatch
\* channel is closed by one step only, taken after the last send.
PhaseStep(pool, poolNext, at, atNext, sendPc, n) ==
    /\ PoolPhase(poolNext, atNext, sendPc) \in
          { PoolPhase(pool, at, sendPc), PoolPhase(pool, at, sendPc) + 1 }
    /\ poolNext.workClosed # pool.workClosed =>
          (~pool.workClosed /\ pool.sent = n /\ pool.received = 0)
    /\ poolNext.sent >= pool.sent
    /\ poolNext.received >= pool.received

C23Step ==
    /\ PhaseStep(dns, dns', pc, pc', "dns_send", Len(hostnames))
    /\ PhaseStep(geo, geo', pc, pc', "geo_send", Len(ipAddrs))

\* C23: each pool goes through Idle, Dispatching, Draining, Done in that order
\* and never back: the dispatch channel is closed once, after the N-th item was
\* handed to a worker; no result is received before it is closed; Done comes
\* only after the N-th result was received.
C23_PhasesInOrder == [](C23Phases) /\ [][C23Step]_vars

\* C23 witness: both pools are Done, each after two items.
C23_Witness ==
    /\ PoolPhase(dns, pc, "dns_send") = 3
    /\ PoolPhase(geo, pc, "geo_send") = 3
    /\ dns.received = 2
    /\ geo.received = 2


\* A pool whose results channel is closed has no worker holding an item or an
\* undelivered result: every worker started is at its range or has returned.
NoSenderLeft(pool) ==
    pool.resClosed =>
        /\ pool.busy = EmptyBag
        /\ pool.ready = EmptyBag
        /\ pool.idle + pool.exited = pool.spawned

\* Once the results channel is closed, no worker takes an item, finishes a
\* lookup or hands over a result.
NoSendAfterClose(pool, poolNext) ==
    pool.resClosed =>
        /\ poolNext.resClosed
        /\ poolNext.busy = pool.busy
        /\ poolNext.ready = pool.ready
        /\ poolNext.sent = pool.sent
        /\ poolNext.received = pool.received

\* C24: no worker sends on a closed results channel: when resolveAllDNS or
\* resolveAllIpInfo returns and its deferred close runs, no worker holds an
\* undelivered result or an unprocessed item, for every W >= 1, N and
\* interleaving, and none does later.
C24_NoSendOnClosed ==
    /\ [](workers >= 1 => (NoSenderLeft(dns) /\ NoSenderLeft(geo)))
    /\ [][workers >= 1 =>
            (NoSendAfterClose(dns, dns') /\ NoSendAfterClose(geo, geo'))]_vars

\* C24 witness: both pools returned after two items each; the geolocation
\* pool's two workers are at their range or gone.
C24_Witness ==
    /\ workers >= 1
    /\ dns.resClosed
    /\ geo.resClosed
    /\ dns.received = 2
    /\ geo.received = 2
    /\ geo.spawned = 2
    /\ geo.idle + geo.exited = 2


\* Every worker a pool started has returned from its function.
AllWorkersExited == dns.exited = dns.spawned /\ geo.exited = geo.spawned

\* C25: every worker goroutine a pool starts eventually exits, so none is left
\* blocked on a receive or a send: in a state where nothing can move any more,
\* every worker started (W >= 1) has returned.
C25_WorkersExit ==
    (workers >= 1 /\ ~ENABLED Next) => AllWorkersExited


\* C26: the worker count is not clamped to at least 1: with W <= 0 and at
\* least one item, the pool starts no worker, its dispatcher blocks for ever
\* on the first send, and it never closes a channel, collects or returns
\* anything.
C26_NoWorkersBlocks ==
    (workers <= 0 /\ pc \notin { "main", "args", "exit" }) =>
        /\ Len(hostnames) >= 1
        /\ pc = "dns_send"
        /\ dns.spawned = 0
        /\ dns.sent = 0
        /\ ~dns.workClosed
        /\ ~dns.resClosed
        /\ ~ENABLED Next
        /\ SpawnCount(workers, Len(hostnames)) = 0
        /\ allDnsReplies = <<>> /\ errors = <<>>
        /\ ipAddrs = <<>> /\ iir = <<>> /\ allRows = <<>>

\* C26 witness: -t 0 with two identifiers: main is at its first send with no
\* worker to take it.
C26_Witness ==
    /\ workers = 0
    /\ pc = "dns_send"
    /\ Len(hostnames) = 2
    /\ dns.spawned = 0
    /\ ~ENABLED ResolveAllDNSSend
    /\ ~ENABLED Next


\* C27: after runDNS the keys of ipToHostnames are exactly the elements of the
\* unique-IP list and each key has at least one identifier; so every IP handed
\* to the geolocation pool has an identifier to join to.
C27_IndexCoversIpList ==
    /\ RunDNSReturned =>
          /\ DOMAIN ipToHostnames = Range(ipAddrs)
          /\ \A a \in DOMAIN ipToHostnames : Len(ipToHostnames[a]) >= 1
    /\ \A ip \in BagToSet(geo.busy) \cup BagToSet(geoRequests) :
          /\ ip \in DOMAIN ipToHostnames
          /\ ipToHostnames[ip] # <<>>

\* C27 witness: "a" gave 2.2.2.2 and 1.1.1.1, "b" gave 1.1.1.1: two keys, two
\* list elements, and 1.1.1.1 (two identifiers) is with a geolocation worker.
C27_Witness ==
    /\ pc = "geo_send"
    /\ Len(ipAddrs) = 2
    /\ DOMAIN ipToHostnames = { V4A, V4B }
    /\ Len(MapGet(ipToHostnames, V4A)) = 2
    /\ V4A \in BagToSet(geo.busy)


\* C28: the record callRemoteService(ip) returns for a dispatched ip (not the
\* self-location query, whose ip is empty) has Ip = ip on every path, the
\* error paths and the decoded-JSON path alike, whatever the body holds.
C28_RecordKeepsIp ==
    (pc = "crs_done" /\ crsIn.ip # <<>>) => crsOut.Ip = crsIn.ip


\* C29: outputTable never indexes out of range while it parses a location:
\* whatever the self-location loc (also the empty one) and the loc of the
\* records it reports, latlon2coord and the lat/lon split find two parts, so
\* the call never ends in a panic.
C29_LocationParsingSafe ==
    /\ pc # "panic"
    /\ pc = "exit" =>
          \A j \in 1..Len(iir) :
             (Reported(iir[j]) /\ ~LocAbsent(iir[j])) =>
                 /\ ~Latlon2coordPanics(localIpInfo.Loc)
                 /\ ~Latlon2coordPanics(iir[j].Loc)


=============================================================================
